---- MODULE Spec2Model ----
(***************************************************************************)
(* A model of the two dynamic arrays of the repository:                    *)
(*   - Vector<T> over RawMemory<T>            (src/vector.h)               *)
(*   - SimpleVector<Type> over ArrayPtr<Type> (src/simple_vector.h)        *)
(* Memory is a heap of blocks; a slot of a block is Raw (no object lives   *)
(* there) or holds the value of a live object.  Every action is one call   *)
(* of a member function, run to its end: either its normal return or the   *)
(* propagation of an exception thrown by an element operation, including   *)
(* the destructors of the locals that run on the way out.                  *)
(***************************************************************************)
EXTENDS Integers, Sequences, FiniteSets, TLC

\* ------------------------------------------------------------------ bounds
\* Largest number of elements the array is grown to when the program uses one array.
MaxSize == 3
\* Largest number of elements an array is grown to when the program uses two arrays.
PairMaxSize == 1
\* the largest size of an array in the program that compares two arrays
CmpMaxSize == 2

\* ------------------------------------------------------------- the domain
Obj == {"a", "b"}                 \* the array objects of the program
Other(o) == IF o = "a" THEN "b" ELSE "a"
Val == {0, 1}                     \* element values the caller passes in
Default == 0                      \* the value of T() / Type()
MovedFrom == 2                    \* the value left in an object that was moved from
Raw == 0 - 1                      \* a slot of raw memory holding no object
NULL == 0                         \* nullptr
BlockId == 1 .. (Cardinality(Obj) + 1)   \* one block per object and one local new_data
Never == 3 * MaxSize + 3                 \* a failure point no operation reaches
\* the failure points of a call that makes at most k throwing-capable element operations
FailAt(k) == (0 .. (k - 1)) \cup {Never}
\* no element operation throws
NoFail(k) == {Never}

Max(x, y) == IF x >= y THEN x ELSE y
Min(x, y) == IF x <= y THEN x ELSE y

\* The element types T the templates are instantiated with:
\*   nmc  std::is_nothrow_move_constructible_v<T>
\*   cc   std::is_copy_constructible_v<T>
\*   nma  std::is_nothrow_move_assignable_v<T>
\*   mv   T has move operations of its own (a move leaves the source MovedFrom);
\*        without them std::move(x) selects the copy operations
TypeKinds ==
  { [nmc |-> TRUE,  cc |-> TRUE,  nma |-> TRUE,  mv |-> TRUE],     \* e.g. std::string
    [nmc |-> FALSE, cc |-> TRUE,  nma |-> FALSE, mv |-> FALSE] }   \* copy-only, copies may throw

VARIABLES
  impl,     \* which container the program uses: "Vector" or "SimpleVector"
  T,        \* the traits of the element type
  hp,       \* the heap: blk[b] is the slot sequence of block b (<<>>: not allocated),
            \*           bad the set of lifetime errors the last call made
  vec,      \* vec[o]: the Vector object o: alive, data_ (buffer_, capacity_), size_
  sv,       \* sv[o]: the SimpleVector object o: alive, items_, size_, capacity_
  appended, \* appended[o]: the values appended to o since it was created empty,
            \*              while nothing but appends was applied to it
  emptied,  \* emptied[o]: the capacity o had when Resize(0) emptied it, while nothing
            \*             but appends was applied to it since (None otherwise)
  last      \* the last call: op, obj, ok (returned normally), arg, val, ret, fail

vars == <<impl, T, hp, vec, sv, appended, emptied, last>>

\* --------------------------------------------------------------- the heap
EmptyHeap == [blk |-> [b \in BlockId |-> <<>>], bad |-> {}]

Flag(h, cond, what) == IF cond THEN [h EXCEPT !.bad = @ \cup {what}] ELSE h
\* the heap at the start of a call: bad holds the errors of one call
Enter(h) == [h EXCEPT !.bad = {}]

\* operator new: the lowest free address
NewBlock(h) == CHOOSE b \in BlockId : h.blk[b] = <<>> /\ \A c \in BlockId : h.blk[c] = <<>> => b <= c

\* RawMemory::Allocate(n): n != 0 ? operator new(n * sizeof(T)) : nullptr
AllocateId(h, n) == IF n # 0 THEN NewBlock(h) ELSE NULL
Allocate(h, n) ==
  IF n # 0 THEN [h EXCEPT !.blk[NewBlock(h)] = [i \in 1 .. n |-> Raw]] ELSE h

\* RawMemory::Deallocate(buf): operator delete(buf), no destructor runs
Deallocate(h, buf) ==
  IF buf = NULL THEN h
  ELSE LET h1 == Flag(h, h.blk[buf] = <<>>, "double_release")
           h2 == Flag(h1, \E i \in DOMAIN h.blk[buf] : h.blk[buf][i] # Raw, "released_live")
       IN [h2 EXCEPT !.blk[buf] = <<>>]

\* the slots of block buf at offsets [off, off + n)
Slots(h, buf, off, n) == [i \in 1 .. n |-> h.blk[buf][off + i]]

\* new (buf + off) T(x)
ConstructAt(h, buf, off, x) ==
  [Flag(h, h.blk[buf][off + 1] # Raw, "constructed_over_live") EXCEPT !.blk[buf][off + 1] = x]

\* std::destroy_n(buf + off, n)
DestroyN(h, buf, off, n) ==
  IF n = 0 THEN h
  ELSE [Flag(h, \E i \in 1 .. n : h.blk[buf][off + i] = Raw, "destroyed_raw")
          EXCEPT !.blk[buf] = [i \in DOMAIN @ |-> IF i > off /\ i <= off + n THEN Raw ELSE @[i]]]

\* construct xs[1..k] at buf + off ..., the way the std::uninitialized_* algorithms do
ConstructSeq(h, buf, off, xs, k) ==
  IF k = 0 THEN h
  ELSE [Flag(Flag(h, \E i \in 1 .. k : h.blk[buf][off + i] # Raw, "constructed_over_live"),
             \E i \in 1 .. k : xs[i] = Raw, "read_raw")
          EXCEPT !.blk[buf] = [i \in DOMAIN @ |-> IF i > off /\ i <= off + k THEN xs[i - off] ELSE @[i]]]

\* the sources of k moves: MovedFrom where T moves, untouched where it copies
MoveOut(h, buf, off, k) ==
  IF k = 0 \/ ~T.mv THEN h
  ELSE [h EXCEPT !.blk[buf] = [i \in DOMAIN @ |-> IF i > off /\ i <= off + k THEN MovedFrom ELSE @[i]]]

\* A bulk algorithm's outcome: the heap, whether it returned normally, and what is
\* left of the failure point f (the number of throwing-capable element operations
\* that still succeed).
Done(h, f) == [h |-> h, ok |-> TRUE, f |-> f]
Threw(h) == [h |-> h, ok |-> FALSE, f |-> 0]

\* std::uninitialized_copy_n(from + foff, n, to + toff): the copy constructor may
\* throw; the elements constructed so far are then destroyed.
UninitializedCopyN(h, from, foff, n, to, toff, f) ==
  IF n = 0 THEN Done(h, f)
  ELSE IF f >= n THEN Done(ConstructSeq(h, to, toff, Slots(h, from, foff, n), n), f - n)
  ELSE Threw(DestroyN(ConstructSeq(h, to, toff, Slots(h, from, foff, n), f), to, toff, f))

\* std::uninitialized_move_n(from + foff, n, to + toff): the move constructor
\* throws only when it is not noexcept.
UninitializedMoveN(h, from, foff, n, to, toff, f) ==
  IF n = 0 THEN Done(h, f)
  ELSE IF T.nmc \/ f >= n
    THEN Done(MoveOut(ConstructSeq(h, to, toff, Slots(h, from, foff, n), n), from, foff, n),
              IF T.nmc THEN f ELSE f - n)
  ELSE Threw(MoveOut(DestroyN(ConstructSeq(h, to, toff, Slots(h, from, foff, n), f), to, toff, f),
                     from, foff, f))

\* std::uninitialized_value_construct_n(buf + off, n): T() may throw
UninitializedValueConstructN(h, buf, off, n, f) ==
  IF n = 0 THEN Done(h, f)
  ELSE IF f >= n THEN Done(ConstructSeq(h, buf, off, [i \in 1 .. n |-> Default], n), f - n)
  ELSE Threw(DestroyN(ConstructSeq(h, buf, off, [i \in 1 .. n |-> Default], f), buf, off, f))

\* UnitializedN with the last element left behind
UnitializedNShort(h, from, foff, n, to, toff, f) ==
  UninitializedCopyN(h, from, foff, IF n > 0 THEN n - 1 ELSE 0, to, toff, f)

\* Vector::UnitializedN: move when T's move constructor cannot throw or T cannot
\* be copied, copy otherwise
UnitializedN(h, from, foff, n, to, toff, f) ==
  IF T.nmc \/ ~T.cc
    THEN UninitializedMoveN(h, from, foff, n, to, toff, f)
    ELSE UninitializedCopyN(h, from, foff, n, to, toff, f)


\* ------------------------------------------------------------- RawMemory<T>
\* RawMemory(): buffer_ = nullptr, capacity_ = 0
RawMemoryEmpty == [buffer_ |-> NULL, capacity_ |-> 0]

\* RawMemory(capacity): buffer_(Allocate(capacity)), capacity_(capacity); the heap
\* after it is Allocate(h, capacity)
RawMemorySized(h, capacity) == [buffer_ |-> AllocateId(h, capacity), capacity_ |-> capacity]

\* RawMemory::Swap(other): <<this, other>> afterwards
RawMemorySwap(this, other) == <<other, this>>

\* RawMemory::operator=(RawMemory&& rhs), this != &rhs: <<this, rhs>> afterwards
RawMemoryMoveAssign(this, rhs) ==
  << [buffer_ |-> rhs.buffer_, capacity_ |-> rhs.capacity_],
     [buffer_ |-> NULL, capacity_ |-> 0] >>

\* ---------------------------------------------------------------- Vector<T>
\* What a member function leaves: the heap h, the object v, whether it returned
\* normally, the rest f of the failure point, the index ret of the returned position.
Ret(h, v, ok, f, ret) == [h |-> h, v |-> v, ok |-> ok, f |-> f, ret |-> ret]
NoRet == 0 - 1

\* Vector(): data_ empty, size_ = 0
VectorEmpty == [alive |-> TRUE, data_ |-> RawMemoryEmpty, size_ |-> 0]
\* an object outside its lifetime
Gone == [alive |-> FALSE, data_ |-> RawMemoryEmpty, size_ |-> 0]

Buf(v) == v.data_.buffer_
\* Vector::Capacity
Capacity(v) == v.data_.capacity_

\* Vector::~Vector: destroy_n(data_, size_), then ~RawMemory releases the block
VectorDtor(h, v) == Deallocate(DestroyN(h, Buf(v), 0, v.size_), Buf(v))

\* Vector(size_t size)
VectorSized(h, size, f) ==
  LET data == RawMemorySized(h, size)
      r == UninitializedValueConstructN(Allocate(h, size), data.buffer_, 0, size, f)
  IN IF r.ok THEN Ret(r.h, [alive |-> TRUE, data_ |-> data, size_ |-> size], TRUE, r.f, NoRet)
     ELSE Ret(Deallocate(r.h, data.buffer_), Gone, FALSE, 0, NoRet)

\* VectorCopy that shares the block of other
VectorCopyShallow(h, other, f) ==
  Ret(h, [alive |-> TRUE, data_ |-> other.data_, size_ |-> other.size_], TRUE, f, NoRet)

\* Vector(const Vector& other)
VectorCopy(h, other, f) ==
  LET data == RawMemorySized(h, other.size_)
      r == UninitializedCopyN(Allocate(h, other.size_), Buf(other), 0, other.size_,
                              data.buffer_, 0, f)
  IN IF r.ok THEN Ret(r.h, [alive |-> TRUE, data_ |-> data, size_ |-> other.size_], TRUE, r.f, NoRet)
     ELSE Ret(Deallocate(r.h, data.buffer_), Gone, FALSE, 0, NoRet)

\* Vector::Swap(other): <<this, other>> afterwards
VectorSwap(this, other) ==
  LET d == RawMemorySwap(this.data_, other.data_)
  IN << [this EXCEPT !.data_ = d[1], !.size_ = other.size_],
        [other EXCEPT !.data_ = d[2], !.size_ = this.size_] >>

\* Vector(Vector&& other): a default-constructed object swapped with other
VectorMove(other) == VectorSwap(VectorEmpty, other)

\* Reserve that releases the old block without destroying its elements
ReserveNoDestroy(h, v, new_capacity, f) ==
  IF new_capacity <= Capacity(v) THEN Ret(h, v, TRUE, f, NoRet)
  ELSE
    LET new_data == RawMemorySized(h, new_capacity)
        r == UnitializedN(Allocate(h, new_capacity), Buf(v), 0, v.size_, new_data.buffer_, 0, f)
    IN IF ~r.ok THEN Ret(Deallocate(r.h, new_data.buffer_), v, FALSE, 0, NoRet)
       ELSE LET d == RawMemorySwap(v.data_, new_data)
            IN Ret(Deallocate(r.h, d[2].buffer_), [v EXCEPT !.data_ = d[1]], TRUE, r.f, NoRet)

\* Vector::Reserve
Reserve(h, v, new_capacity, f) ==
  IF new_capacity <= Capacity(v) THEN Ret(h, v, TRUE, f, NoRet)
  ELSE
    LET new_data == RawMemorySized(h, new_capacity)
        r == UnitializedN(Allocate(h, new_capacity), Buf(v), 0, v.size_, new_data.buffer_, 0, f)
    IN IF ~r.ok THEN Ret(Deallocate(r.h, new_data.buffer_), v, FALSE, 0, NoRet)
       ELSE LET h2 == DestroyN(r.h, Buf(v), 0, v.size_)
                d == RawMemorySwap(v.data_, new_data)
            IN Ret(Deallocate(h2, d[2].buffer_), [v EXCEPT !.data_ = d[1]], TRUE, r.f, NoRet)

\* Resize that gives the block back when it empties the array
ResizeRelease(h, v, new_size, f) ==
  IF v.size_ > new_size /\ new_size = 0
    THEN Ret(Deallocate(DestroyN(h, Buf(v), 0, v.size_), Buf(v)),
             [v EXCEPT !.data_ = RawMemoryEmpty, !.size_ = 0], TRUE, f, NoRet)
  ELSE IF v.size_ > new_size
    THEN Ret(DestroyN(h, Buf(v), new_size, v.size_ - new_size),
             [v EXCEPT !.size_ = new_size], TRUE, f, NoRet)
  ELSE Ret(h, v, new_size = v.size_, f, NoRet)

\* Vector::Resize
Resize(h, v, new_size, f) ==
  IF v.size_ > new_size
    THEN Ret(DestroyN(h, Buf(v), new_size, v.size_ - new_size),
             [v EXCEPT !.size_ = new_size], TRUE, f, NoRet)
  ELSE
    LET r1 == Reserve(h, v, new_size, f)
    IN IF ~r1.ok THEN r1
       ELSE LET r2 == UninitializedValueConstructN(r1.h, Buf(r1.v), v.size_, new_size - v.size_, r1.f)
            IN IF ~r2.ok THEN Ret(r2.h, r1.v, FALSE, 0, NoRet)
               ELSE Ret(r2.h, [r1.v EXCEPT !.size_ = new_size], TRUE, r2.f, NoRet)

\* GrownCapacity growing by one slot
GrownCapacityByOne(size) == size + 1

\* the capacity of the block an append or insert grows into
GrownCapacity(size) == IF size = 0 THEN 1 ELSE size * 2

\* EmplaceBack that relocates the old elements before it constructs the new one
EmplaceBackRelocateFirst(h, v, x, f) ==
  IF Capacity(v) = v.size_ THEN
    LET new_data == RawMemorySized(h, GrownCapacity(v.size_))
        r == UnitializedN(Allocate(h, GrownCapacity(v.size_)),
                          Buf(v), 0, v.size_, new_data.buffer_, 0, f)
    IN IF ~r.ok THEN Ret(Deallocate(r.h, new_data.buffer_), v, FALSE, 0, NoRet)
       ELSE IF r.f = 0
         THEN Ret(Deallocate(DestroyN(r.h, new_data.buffer_, 0, v.size_), new_data.buffer_),
                  v, FALSE, 0, NoRet)
       ELSE LET h2 == DestroyN(ConstructAt(r.h, new_data.buffer_, v.size_, x), Buf(v), 0, v.size_)
                d == RawMemorySwap(v.data_, new_data)
            IN Ret(Deallocate(h2, d[2].buffer_),
                   [v EXCEPT !.data_ = d[1], !.size_ = v.size_ + 1], TRUE, r.f - 1, v.size_)
  ELSE
    IF f = 0 THEN Ret(h, v, FALSE, 0, NoRet)
    ELSE Ret(ConstructAt(h, Buf(v), v.size_, x), [v EXCEPT !.size_ = v.size_ + 1],
             TRUE, f - 1, v.size_)

\* Vector::EmplaceBack(args), T(args) having the value x; ret is the index of *elem
EmplaceBack(h, v, x, f) ==
  IF Capacity(v) = v.size_ THEN
    LET new_data == RawMemorySized(h, GrownCapacity(v.size_))
        h1 == Allocate(h, GrownCapacity(v.size_))
    IN IF f = 0 THEN Ret(Deallocate(h1, new_data.buffer_), v, FALSE, 0, NoRet)
       ELSE
         LET r == UnitializedN(ConstructAt(h1, new_data.buffer_, v.size_, x),
                               Buf(v), 0, v.size_, new_data.buffer_, 0, f - 1)
         IN IF ~r.ok THEN Ret(Deallocate(r.h, new_data.buffer_), v, FALSE, 0, NoRet)
            ELSE LET h2 == DestroyN(r.h, Buf(v), 0, v.size_)
                     d == RawMemorySwap(v.data_, new_data)
                 IN Ret(Deallocate(h2, d[2].buffer_),
                        [v EXCEPT !.data_ = d[1], !.size_ = v.size_ + 1], TRUE, r.f, v.size_)
  ELSE
    IF f = 0 THEN Ret(h, v, FALSE, 0, NoRet)
    ELSE Ret(ConstructAt(h, Buf(v), v.size_, x), [v EXCEPT !.size_ = v.size_ + 1],
             TRUE, f - 1, v.size_)

\* Vector::PopBack
PopBack(h, v) ==
  Ret(DestroyN(h, Buf(v), v.size_ - 1, 1), [v EXCEPT !.size_ = v.size_ - 1], TRUE, Never, NoRet)


\* The value an element assignment leaves in its source: std::move(x) as the source
\* of an assignment leaves MovedFrom when T moves.
AfterMove(x) == IF T.mv THEN MovedFrom ELSE x

\* MoveBackward that shifts nothing
MoveBackwardNone(h, buf, first, lst, f) == Done(h, f)

\* std::move_backward(buf + first, buf + lst, buf + lst + 1): the elements of
\* [first, lst) are move-assigned one slot towards the tail, the last one first; the
\* assignment throws only when it is not noexcept. k assignments are done.
MoveBackward(h, buf, first, lst, f) ==
  LET n == lst - first
      k == IF T.nma THEN n ELSE Min(n, f)
      old == h.blk[buf]
      h1 == IF k = 0 THEN h
            ELSE [Flag(h, \E i \in (lst - k + 1) .. (lst + 1) : old[i] = Raw, "assigned_raw")
                    EXCEPT !.blk[buf] =
                      [i \in DOMAIN old |->
                         IF i > lst - k + 1 /\ i <= lst + 1 THEN old[i - 1]
                         ELSE IF i = lst - k + 1 THEN AfterMove(old[i])
                         ELSE old[i]]]
  IN IF k = n THEN Done(h1, IF T.nma THEN f ELSE f - n) ELSE Threw(h1)

\* MoveForward that shifts nothing
MoveForwardNone(h, buf, first, lst, f) == Done(h, f)

\* std::move(buf + first, buf + lst, buf + first - 1): the elements of [first, lst)
\* are move-assigned one slot towards the head, the first one first.
MoveForward(h, buf, first, lst, f) ==
  LET n == lst - first
      k == IF T.nma THEN n ELSE Min(n, f)
      old == h.blk[buf]
      h1 == IF k = 0 THEN h
            ELSE [Flag(h, \E i \in first .. (first + k) : old[i] = Raw, "assigned_raw")
                    EXCEPT !.blk[buf] =
                      [i \in DOMAIN old |->
                         IF i >= first /\ i < first + k THEN old[i + 1]
                         ELSE IF i = first + k THEN AfterMove(old[i])
                         ELSE old[i]]]
  IN IF k = n THEN Done(h1, IF T.nma THEN f ELSE f - n) ELSE Threw(h1)

\* std::copy_n(from, n, to): copy assignment of n elements, which may throw
CopyN(h, from, n, to, f) ==
  LET k == Min(n, f)
      h1 == IF k = 0 THEN h
            ELSE [Flag(h, \E i \in 1 .. k : h.blk[to][i] = Raw \/ h.blk[from][i] = Raw, "assigned_raw")
                    EXCEPT !.blk[to] = [i \in DOMAIN @ |-> IF i <= k THEN h.blk[from][i] ELSE @[i]]]
  IN IF k = n THEN Done(h1, f - n) ELSE Threw(h1)

\* the assignment *(buf + off) = std::move(temp), temp having the value x
MoveAssignAt(h, buf, off, x, f) ==
  IF ~T.nma /\ f = 0 THEN Threw(h)
  ELSE Done([Flag(h, h.blk[buf][off + 1] = Raw, "assigned_raw") EXCEPT !.blk[buf][off + 1] = x],
            IF T.nma THEN f ELSE f - 1)

\* Vector::Emplace(pos, args), pos = cbegin() + distance, T(args) having the value x;
\* ret is the index of the returned iterator
Emplace(h, v, distance, x, f) ==
  IF distance = v.size_ THEN EmplaceBack(h, v, x, f)
  ELSE IF Capacity(v) = v.size_ THEN
    LET new_data == RawMemorySized(h, GrownCapacity(v.size_))
        h1 == Allocate(h, GrownCapacity(v.size_))
    IN IF f = 0 THEN Ret(Deallocate(h1, new_data.buffer_), v, FALSE, 0, NoRet)
       ELSE
         LET r1 == UnitializedN(ConstructAt(h1, new_data.buffer_, distance, x),
                                Buf(v), 0, distance, new_data.buffer_, 0, f - 1)
         IN IF ~r1.ok THEN Ret(Deallocate(r1.h, new_data.buffer_), v, FALSE, 0, NoRet)
            ELSE
              LET r2 == UnitializedN(r1.h, Buf(v), distance, v.size_ - distance,
                                     new_data.buffer_, distance + 1, r1.f)
              IN IF ~r2.ok THEN Ret(Deallocate(r2.h, new_data.buffer_), v, FALSE, 0, NoRet)
                 ELSE LET h2 == DestroyN(r2.h, Buf(v), 0, v.size_)
                          d == RawMemorySwap(v.data_, new_data)
                      IN Ret(Deallocate(h2, d[2].buffer_),
                             [v EXCEPT !.data_ = d[1], !.size_ = v.size_ + 1], TRUE, r2.f, distance)
  ELSE
    IF f = 0 THEN Ret(h, v, FALSE, 0, NoRet)                       \* T temp(args) throws
    ELSE
      LET r1 == UninitializedMoveN(h, Buf(v), v.size_ - 1, 1, Buf(v), v.size_, f - 1)
      IN IF ~r1.ok THEN Ret(r1.h, v, FALSE, 0, NoRet)
         ELSE
           LET r2 == MoveBackward(r1.h, Buf(v), distance, v.size_ - 1, r1.f)
           IN IF ~r2.ok THEN Ret(r2.h, v, FALSE, 0, NoRet)
              ELSE
                LET r3 == MoveAssignAt(r2.h, Buf(v), distance, x, r2.f)
                IN IF ~r3.ok THEN Ret(r3.h, v, FALSE, 0, NoRet)
                   ELSE Ret(r3.h, [v EXCEPT !.size_ = v.size_ + 1], TRUE, r3.f, distance)

\* Vector::PushBack(const T& value) with value a reference to the element at index i
\* of the same array: EmplaceBack(value) constructs the new element from the
\* reference before it touches any element
PushBackElem(h, v, i, f) == EmplaceBack(h, v, h.blk[Buf(v)][i + 1], f)

\* Vector::Insert(pos, const T& value) with value a reference to the element at index
\* i of the same array: Emplace(pos, value) constructs the new element (or temp) from
\* the reference before it touches any element
InsertElem(h, v, distance, i, f) == Emplace(h, v, distance, h.blk[Buf(v)][i + 1], f)

\* Vector::Erase(pos), pos = cbegin() + distance
Erase(h, v, distance, f) ==
  IF distance = v.size_
    THEN LET r == PopBack(h, v) IN Ret(r.h, r.v, TRUE, f, r.v.size_)
  ELSE
    LET r1 == MoveForward(h, Buf(v), distance + 1, v.size_, f)
    IN IF ~r1.ok THEN Ret(r1.h, v, FALSE, 0, NoRet)
       ELSE LET r2 == PopBack(r1.h, v) IN Ret(r2.h, r2.v, TRUE, r1.f, distance)


\* What an operation on two objects leaves: the heap, this, the other object, and
\* whether it returned normally.
Ret2(h, this, rhs, ok) == [h |-> h, this |-> this, rhs |-> rhs, ok |-> ok]

\* a copy assignment that always builds a copy of rhs and swaps with it
CopyAssignCopySwap(h, this, rhs, f) ==
  LET c == VectorCopy(h, rhs, f)
  IN IF ~c.ok THEN Ret2(c.h, this, rhs, FALSE)
     ELSE LET s == VectorSwap(this, c.v)
          IN Ret2(VectorDtor(c.h, s[2]), s[1], rhs, TRUE)

\* Vector::operator=(const Vector& rhs), this != &rhs
CopyAssign(h, this, rhs, f) ==
  IF rhs.size_ > Capacity(this) THEN
    LET c == VectorCopy(h, rhs, f)                      \* Vector rhs_copy(rhs)
    IN IF ~c.ok THEN Ret2(c.h, this, rhs, FALSE)
       ELSE LET s == VectorSwap(this, c.v)              \* Swap(rhs_copy)
            IN Ret2(VectorDtor(c.h, s[2]), s[1], rhs, TRUE)     \* ~rhs_copy
  ELSE
    LET r1 == CopyN(h, Buf(rhs), Min(rhs.size_, this.size_), Buf(this), f)
    IN IF ~r1.ok THEN Ret2(r1.h, this, rhs, FALSE)
       ELSE IF this.size_ < rhs.size_ THEN
         LET r2 == UninitializedCopyN(r1.h, Buf(rhs), this.size_, rhs.size_ - this.size_,
                                      Buf(this), this.size_, r1.f)
         IN IF ~r2.ok THEN Ret2(r2.h, this, rhs, FALSE)
            ELSE Ret2(r2.h, [this EXCEPT !.size_ = rhs.size_], rhs, TRUE)
       ELSE Ret2(DestroyN(r1.h, Buf(this), rhs.size_, this.size_ - rhs.size_),
                 [this EXCEPT !.size_ = rhs.size_], rhs, TRUE)

\* MoveAssign that leaves rhs its size
MoveAssignKeepSize(h, this, rhs) ==
  LET d == RawMemoryMoveAssign(this.data_, rhs.data_)
  IN Ret2(h, [this EXCEPT !.data_ = d[1], !.size_ = rhs.size_], [rhs EXCEPT !.data_ = d[2]], TRUE)

\* Vector::operator=(Vector&& rhs), this != &rhs:
\*   data_ = std::move(rhs.data_); size_ = std::exchange(rhs.size_, 0)
MoveAssign(h, this, rhs) ==
  LET d == RawMemoryMoveAssign(this.data_, rhs.data_)
  IN Ret2(h, [this EXCEPT !.data_ = d[1], !.size_ = rhs.size_],
             [rhs EXCEPT !.data_ = d[2], !.size_ = 0], TRUE)

\* ------------------------------------------------------------- ArrayPtr<Type>
\* ArrayPtr(size): nullptr for size 0, else new Type[size], every element Type()
ArrayPtrId(h, size) == IF size # 0 THEN NewBlock(h) ELSE NULL
ArrayPtrNew(h, size) ==
  IF size # 0 THEN [h EXCEPT !.blk[NewBlock(h)] = [i \in 1 .. size |-> Default]] ELSE h

\* ~ArrayPtr: delete[] raw_ptr_, which destroys the elements and releases the block
ArrayPtrDelete(h, ptr) ==
  IF ptr = NULL THEN h
  ELSE [Flag(h, h.blk[ptr] = <<>>, "double_release") EXCEPT !.blk[ptr] = <<>>]

\* ------------------------------------------------------ SimpleVector<Type>
\* SimpleVector(): items_ null, size_ = 0, capacity_ = 0
SimpleVectorEmpty == [alive |-> TRUE, items_ |-> NULL, size_ |-> 0, capacity_ |-> 0]
SimpleGone == [alive |-> FALSE, items_ |-> NULL, size_ |-> 0, capacity_ |-> 0]

\* the block ptr with the elements at offsets [off, off + Len(xs)) assigned xs
Assign(h, ptr, off, xs) ==
  IF Len(xs) = 0 THEN h
  ELSE [h EXCEPT !.blk[ptr] =
          [i \in DOMAIN @ |-> IF i > off /\ i <= off + Len(xs) THEN xs[i - off] ELSE @[i]]]

\* the block ptr with the elements at offsets [off, off + n) moved from
MovedOut(h, ptr, off, n) ==
  IF n = 0 THEN h
  ELSE [h EXCEPT !.blk[ptr] =
          [i \in DOMAIN @ |-> IF i > off /\ i <= off + n THEN AfterMove(@[i]) ELSE @[i]]]

\* SimpleVector(size): std::fill(begin(), end(), Type())
SimpleVectorSized(h, size) ==
  Ret(Assign(ArrayPtrNew(h, size), ArrayPtrId(h, size), 0, [i \in 1 .. size |-> Default]),
      [alive |-> TRUE, items_ |-> ArrayPtrId(h, size), size_ |-> size, capacity_ |-> size],
      TRUE, Never, NoRet)

\* SimpleVector(const ReserveProxyObj&): capacity without elements
SimpleVectorReserved(h, capacity) ==
  Ret(ArrayPtrNew(h, capacity),
      [alive |-> TRUE, items_ |-> ArrayPtrId(h, capacity), size_ |-> 0, capacity_ |-> capacity],
      TRUE, Never, NoRet)

\* SimpleVector(const SimpleVector& other)
SimpleVectorCopy(h, other) ==
  LET ptr == ArrayPtrId(h, other.capacity_)
  IN Ret(Assign(ArrayPtrNew(h, other.capacity_), ptr, 0, Slots(h, other.items_, 0, other.size_)),
         [alive |-> TRUE, items_ |-> ptr, size_ |-> other.size_, capacity_ |-> other.capacity_],
         TRUE, Never, NoRet)

\* SimpleVector::swap(other): <<this, other>> afterwards
SimpleVectorSwap(this, other) == << [other EXCEPT !.alive = this.alive], [this EXCEPT !.alive = other.alive] >>

\* At that checks the index against the capacity
AtByCapacity(h, v, index) ==
  IF index >= v.capacity_ THEN Ret(h, v, FALSE, 0, NoRet) ELSE Ret(h, v, TRUE, Never, index)

\* SimpleVector::At(index): throws std::out_of_range when index >= size_, else
\* returns items_[index]; ret is the index of the element referred to
At(h, v, index) ==
  IF index >= v.size_ THEN Ret(h, v, FALSE, 0, NoRet) ELSE Ret(h, v, TRUE, Never, index)

\* SimpleVector::Clear
Clear(h, v) == Ret(h, [v EXCEPT !.size_ = 0], TRUE, Never, NoRet)

\* SimpleVector::ReallocateCopy(new_capacity): the heap and the new block
ReallocateCopy(h, v, new_capacity) ==
  LET result == ArrayPtrId(h, new_capacity)
      move_size == Min(new_capacity, v.size_)
      h1 == Assign(ArrayPtrNew(h, new_capacity), result, 0, Slots(h, v.items_, 0, move_size))
  IN [h |-> MovedOut(h1, v.items_, 0, move_size), ptr |-> result]

\* SimpleVector::Resize
SimpleVectorResize(h, v, new_size) ==
  IF new_size > v.capacity_ THEN
    LET new_capacity == Max(new_size, v.capacity_ * 2)
        rc == ReallocateCopy(h, v, new_capacity)
        h1 == Assign(rc.h, rc.ptr, v.size_, [i \in 1 .. (new_size - v.size_) |-> Default])
    IN Ret(ArrayPtrDelete(h1, v.items_),
           [v EXCEPT !.items_ = rc.ptr, !.capacity_ = new_capacity, !.size_ = new_size],
           TRUE, Never, NoRet)
  ELSE
    Ret(IF new_size > v.size_
          THEN Assign(h, v.items_, v.size_, [i \in 1 .. (new_size - v.size_) |-> Default])
          ELSE h,
        [v EXCEPT !.size_ = new_size], TRUE, Never, NoRet)

\* SimpleVector::PushBack(const Type& item) and PushBack(Type&& item)
SimpleVectorPushBack(h, v, item) ==
  LET new_size == v.size_ + 1
  IN IF new_size > v.capacity_ THEN
       LET new_capacity == Max(new_size, v.capacity_ * 2)
           rc == ReallocateCopy(h, v, new_capacity)
           h1 == Assign(rc.h, rc.ptr, v.size_, <<item>>)
       IN Ret(ArrayPtrDelete(h1, v.items_),
              [v EXCEPT !.items_ = rc.ptr, !.capacity_ = new_capacity, !.size_ = v.size_ + 1],
              TRUE, Never, v.size_)
     ELSE Ret(Assign(h, v.items_, v.size_, <<item>>), [v EXCEPT !.size_ = v.size_ + 1],
              TRUE, Never, v.size_)

\* SimpleVectorInsert that grows by one slot
SimpleVectorInsertTight(h, v, offset, value) ==
  LET new_size == v.size_ + 1
  IN IF new_size <= v.capacity_ THEN
       LET h1 == Assign(h, v.items_, offset + 1, Slots(h, v.items_, offset, v.size_ - offset))
       IN Ret(Assign(h1, v.items_, offset, <<value>>), [v EXCEPT !.size_ = v.size_ + 1],
              TRUE, Never, offset)
     ELSE
       LET new_items == ArrayPtrId(h, new_size)
           h1 == Assign(ArrayPtrNew(h, new_size), new_items, 0, Slots(h, v.items_, 0, offset))
           h2 == Assign(h1, new_items, offset + 1, Slots(h, v.items_, offset, v.size_ - offset))
           h3 == Assign(h2, new_items, offset, <<value>>)
       IN Ret(ArrayPtrDelete(h3, v.items_),
              [v EXCEPT !.items_ = new_items, !.capacity_ = new_size, !.size_ = v.size_ + 1],
              TRUE, Never, offset)

\* SimpleVector::Insert(pos, value), pos = cbegin() + offset; ret is the index of the
\* returned iterator
SimpleVectorInsert(h, v, offset, value) ==
  LET new_size == v.size_ + 1
  IN IF new_size <= v.capacity_ THEN
       LET h1 == Assign(h, v.items_, offset + 1, Slots(h, v.items_, offset, v.size_ - offset))
       IN Ret(Assign(h1, v.items_, offset, <<value>>), [v EXCEPT !.size_ = v.size_ + 1],
              TRUE, Never, offset)
     ELSE
       LET new_capacity == Max(new_size, v.capacity_ * 2)
           new_items == ArrayPtrId(h, new_capacity)
           h1 == Assign(ArrayPtrNew(h, new_capacity), new_items, 0, Slots(h, v.items_, 0, offset))
           h2 == Assign(h1, new_items, offset + 1, Slots(h, v.items_, offset, v.size_ - offset))
           h3 == Assign(h2, new_items, offset, <<value>>)
       IN Ret(ArrayPtrDelete(h3, v.items_),
              [v EXCEPT !.items_ = new_items, !.capacity_ = new_capacity, !.size_ = v.size_ + 1],
              TRUE, Never, offset)

\* SimpleVector::PushBack(const Type& item) with item a reference to items_[i]: the
\* reference is read when new_items[size_] = item (items_[size_] = item) is executed
SimpleVectorPushBackElem(h, v, i) ==
  LET new_size == v.size_ + 1
  IN IF new_size > v.capacity_ THEN
       LET new_capacity == Max(new_size, v.capacity_ * 2)
           rc == ReallocateCopy(h, v, new_capacity)
           h1 == Assign(rc.h, rc.ptr, v.size_, <<rc.h.blk[v.items_][i + 1]>>)
       IN Ret(ArrayPtrDelete(h1, v.items_),
              [v EXCEPT !.items_ = rc.ptr, !.capacity_ = new_capacity, !.size_ = v.size_ + 1],
              TRUE, Never, v.size_)
     ELSE Ret(Assign(h, v.items_, v.size_, <<h.blk[v.items_][i + 1]>>),
              [v EXCEPT !.size_ = v.size_ + 1], TRUE, Never, v.size_)

\* SimpleVector::Insert(pos, const Type& value) with value a reference to items_[i]:
\* the reference is read when *mutable_pos = value is executed
SimpleVectorInsertElem(h, v, offset, i) ==
  LET new_size == v.size_ + 1
  IN IF new_size <= v.capacity_ THEN
       LET h1 == Assign(h, v.items_, offset + 1, Slots(h, v.items_, offset, v.size_ - offset))
       IN Ret(Assign(h1, v.items_, offset, <<h1.blk[v.items_][i + 1]>>),
              [v EXCEPT !.size_ = v.size_ + 1], TRUE, Never, offset)
     ELSE
       LET new_capacity == Max(new_size, v.capacity_ * 2)
           new_items == ArrayPtrId(h, new_capacity)
           h1 == Assign(ArrayPtrNew(h, new_capacity), new_items, 0, Slots(h, v.items_, 0, offset))
           h2 == Assign(h1, new_items, offset + 1, Slots(h, v.items_, offset, v.size_ - offset))
           h3 == Assign(h2, new_items, offset, <<h2.blk[v.items_][i + 1]>>)
       IN Ret(ArrayPtrDelete(h3, v.items_),
              [v EXCEPT !.items_ = new_items, !.capacity_ = new_capacity, !.size_ = v.size_ + 1],
              TRUE, Never, offset)

\* SimpleVector::PopBack
SimpleVectorPopBack(h, v) ==
  IF v.size_ = 0 THEN Ret(h, v, TRUE, Never, NoRet)
  ELSE Ret(h, [v EXCEPT !.size_ = v.size_ - 1], TRUE, Never, NoRet)

\* SimpleVector::Erase(pos), pos = cbegin() + index
SimpleVectorErase(h, v, index) ==
  LET n == v.size_ - index - 1
      h1 == Assign(h, v.items_, index, Slots(h, v.items_, index + 1, n))
  IN Ret(IF n = 0 THEN h1 ELSE MovedOut(h1, v.items_, v.size_ - 1, 1),
         [v EXCEPT !.size_ = v.size_ - 1], TRUE, Never, index)

\* SimpleVector::Reserve
SimpleVectorReserve(h, v, new_capacity) ==
  IF new_capacity > v.capacity_ THEN
    LET rc == ReallocateCopy(h, v, new_capacity)
    IN Ret(ArrayPtrDelete(rc.h, v.items_),
           [v EXCEPT !.items_ = rc.ptr, !.capacity_ = new_capacity], TRUE, Never, NoRet)
  ELSE Ret(h, v, TRUE, Never, NoRet)

\* SimpleVector::operator=(const SimpleVector& rhs), this != &rhs
SimpleVectorCopyAssign(h, this, rhs) ==
  LET tmp == SimpleVectorCopy(h, rhs)
      s == SimpleVectorSwap(this, tmp.v)
  IN Ret2(ArrayPtrDelete(tmp.h, s[2].items_), s[1], rhs, TRUE)

\* SimpleVector::operator=(SimpleVector&& rhs), this != &rhs
SimpleVectorMoveAssign(h, this, rhs) ==
  LET m == SimpleVectorSwap(SimpleVectorEmpty, rhs)      \* SimpleVector tmp(std::move(rhs))
      s == SimpleVectorSwap(this, m[1])                  \* swap(tmp)
  IN Ret2(ArrayPtrDelete(h, s[2].items_), s[1], m[2], TRUE)

\* the range [v.cbegin(), v.cend())
Range(h, v) == Slots(h, v.items_, 0, v.size_)

\* std::equal(first1, last1, first2, last2): false when the lengths differ, else the
\* elements are compared in order from index i
RECURSIVE EqualFrom(_, _, _)
EqualFrom(xs, ys, i) ==
  IF i > Len(xs) THEN TRUE
  ELSE IF xs[i] # ys[i] THEN FALSE
  ELSE EqualFrom(xs, ys, i + 1)

StdEqual(xs, ys) == IF Len(xs) # Len(ys) THEN FALSE ELSE EqualFrom(xs, ys, 1)

\* std::lexicographical_compare that does not count a proper prefix as smaller
LexicographicalCompareNoPrefix(xs, ys) ==
  \E i \in 1 .. Min(Len(xs), Len(ys)) :
    xs[i] < ys[i] /\ \A j \in 1 .. (i - 1) : xs[j] = ys[j]

\* std::lexicographical_compare(first1, last1, first2, last2): the loop from index i
\*   for (; first1 != last1 && first2 != last2; ++first1, ++first2) {
\*     if (*first1 < *first2) return true;  if (*first2 < *first1) return false; }
\*   return first1 == last1 && first2 != last2;
RECURSIVE LexicographicalCompareFrom(_, _, _)
LexicographicalCompareFrom(xs, ys, i) ==
  IF i > Len(xs) \/ i > Len(ys) THEN i > Len(xs) /\ i <= Len(ys)
  ELSE IF xs[i] < ys[i] THEN TRUE
  ELSE IF ys[i] < xs[i] THEN FALSE
  ELSE LexicographicalCompareFrom(xs, ys, i + 1)

LexicographicalCompare(xs, ys) == LexicographicalCompareFrom(xs, ys, 1)

\* operator== that compares the common prefix only
OperatorEqPrefix(h, lhs, rhs) ==
  \A i \in 1 .. Min(lhs.size_, rhs.size_) : Range(h, lhs)[i] = Range(h, rhs)[i]

\* operator==(lhs, rhs)
OperatorEq(h, lhs, rhs) ==
  IF lhs.size_ # rhs.size_ THEN FALSE ELSE StdEqual(Range(h, lhs), Range(h, rhs))
\* operator!=(lhs, rhs): !(lhs == rhs)
OperatorNe(h, lhs, rhs) == ~OperatorEq(h, lhs, rhs)
\* operator<(lhs, rhs)
OperatorLt(h, lhs, rhs) == LexicographicalCompare(Range(h, lhs), Range(h, rhs))
\* operator>(lhs, rhs): rhs < lhs
OperatorGt(h, lhs, rhs) == OperatorLt(h, rhs, lhs)
\* operator<=(lhs, rhs): !(lhs > rhs)
OperatorLe(h, lhs, rhs) == ~OperatorGt(h, lhs, rhs)
\* operator>=(lhs, rhs): !(lhs < rhs)
OperatorGe(h, lhs, rhs) == ~OperatorLt(h, lhs, rhs)

CompareOps == {"operator==", "operator!=", "operator<", "operator<=", "operator>", "operator>="}
Compare(op, h, lhs, rhs) ==
  CASE op = "operator==" -> OperatorEq(h, lhs, rhs)
    [] op = "operator!=" -> OperatorNe(h, lhs, rhs)
    [] op = "operator<" -> OperatorLt(h, lhs, rhs)
    [] op = "operator<=" -> OperatorLe(h, lhs, rhs)
    [] op = "operator>" -> OperatorGt(h, lhs, rhs)
    [] op = "operator>=" -> OperatorGe(h, lhs, rhs)

\* ------------------------------------------------------------ ownership
\* A block that no object refers to can be neither reached nor released any more:
\* it has leaked, with the elements that live in it. The leak is recorded and the
\* address forgotten; the addresses in use are renamed in the order of the objects
\* that hold them, since the program compares addresses only for equality.
Settle(h, bufs) ==
  LET ra == bufs["a"]
      rb == bufs["b"]
      na == IF ra = NULL THEN NULL ELSE 1
      nb == IF rb = NULL THEN NULL ELSE IF rb = ra THEN na ELSE na + 1
      lost == {b \in BlockId : h.blk[b] # <<>> /\ b # ra /\ b # rb}
      h1 == Flag(Flag(h, lost # {}, "leaked_block"),
                 \E b \in lost : \E i \in DOMAIN h.blk[b] : h.blk[b][i] # Raw, "leaked_element")
  IN [heap |-> [h1 EXCEPT !.blk = [b \in BlockId |->
                                     IF b = na THEN h.blk[ra]
                                     ELSE IF b = nb THEN h.blk[rb]
                                     ELSE <<>>]],
      addr |-> [o \in Obj |-> IF o = "a" THEN na ELSE nb]]


\* ------------------------------------------------------------ the program
None == 0 - 1
\* a call that returned normally
Call(op, o, ok, arg, val, ret) ==
  [op |-> op, obj |-> o, ok |-> ok, arg |-> arg, val |-> val, ret |-> ret, fail |-> None]
\* a call given the failure point f: fail is f when the call threw
CallF(op, o, ok, arg, val, ret, f) ==
  [op |-> op, obj |-> o, ok |-> ok, arg |-> arg, val |-> val, ret |-> ret,
   fail |-> IF ok THEN None ELSE f]

Tracked(xs) == [pure |-> TRUE, seq |-> xs]
Untracked == [pure |-> FALSE, seq |-> <<>>]

\* What is remembered of object q after the call l: the capacity q had when a
\* Resize(0) emptied it, for as long as only appends to q follow. size0 and cap0 are
\* q's size and capacity before the call, changed tells whether the call touched q.
EmptiedBy(l, q, size0, cap0, changed) ==
  IF l.obj = q /\ l.op = "Resize" /\ l.arg = 0 /\ l.ok /\ size0 > 0 THEN cap0
  ELSE IF l.obj = q /\ l.op = "PushBack" THEN emptied[q]
  ELSE IF l.obj # q /\ ~changed THEN emptied[q]
  ELSE None

Init ==
  /\ impl \in {"Vector", "SimpleVector"}
  /\ T \in (IF impl = "Vector" THEN TypeKinds ELSE {CHOOSE k \in TypeKinds : k.nmc /\ k.cc})
  /\ hp = EmptyHeap
  /\ vec = [o \in Obj |-> IF impl = "Vector" /\ o = "a" THEN VectorEmpty ELSE Gone]
  /\ sv = [o \in Obj |-> IF impl = "SimpleVector" /\ o = "a" THEN SimpleVectorEmpty ELSE SimpleGone]
  /\ appended = [o \in Obj |-> Tracked(<<>>)]
  /\ emptied = [o \in Obj |-> None]
  /\ last = Call("init", "a", TRUE, None, None, None)

\* the end of a call on Vector objects: nv the objects, h the heap it leaves
VCommit(h, nv, l, ap) ==
  LET s == Settle(h, [o \in Obj |-> Buf(nv[o])])
  IN /\ hp' = s.heap
     /\ vec' = [o \in Obj |-> [nv[o] EXCEPT !.data_.buffer_ = s.addr[o]]]
     /\ last' = l
     /\ appended' = ap
     /\ emptied' = [q \in Obj |-> EmptiedBy(l, q, vec[q].size_, Capacity(vec[q]), nv[q] # vec[q])]
     /\ UNCHANGED <<impl, T, sv>>

Live(o) == impl = "Vector" /\ vec[o].alive
Dead(o) == impl = "Vector" /\ ~vec[o].alive

VCtorDefault(o) ==
  /\ Dead(o)
  /\ VCommit(Enter(hp), [vec EXCEPT ![o] = VectorEmpty], Call("Vector()", o, TRUE, None, None, None),
             [appended EXCEPT ![o] = Tracked(<<>>)])

VCtorSized(o, n, f) ==
  /\ Dead(o)
  /\ LET r == VectorSized(Enter(hp), n, f)
     IN VCommit(r.h, [vec EXCEPT ![o] = r.v], CallF("Vector(n)", o, r.ok, n, None, None, f),
                [appended EXCEPT ![o] = Untracked])

VCtorCopy(o, f) ==
  /\ Dead(o) /\ Live(Other(o)) /\ T.cc
  /\ LET r == VectorCopy(Enter(hp), vec[Other(o)], f)
     IN VCommit(r.h, [vec EXCEPT ![o] = r.v], CallF("Vector(const&)", o, r.ok, None, None, None, f),
                [appended EXCEPT ![o] = Untracked])

VCtorMove(o) ==
  /\ Dead(o) /\ Live(Other(o))
  /\ LET s == VectorMove(vec[Other(o)])
     IN VCommit(Enter(hp), [vec EXCEPT ![o] = s[1], ![Other(o)] = s[2]],
                Call("Vector(&&)", o, TRUE, None, None, None),
                [p \in Obj |-> Untracked])

VDtor(o) ==
  /\ Live(o)
  /\ VCommit(VectorDtor(Enter(hp), vec[o]), [vec EXCEPT ![o] = Gone],
             Call("~Vector", o, TRUE, None, None, None), [appended EXCEPT ![o] = Untracked])

\* the end of a call of a member function of o that touches no other object
VMember(o, r, op, arg, val, f, ap) ==
  VCommit(r.h, [vec EXCEPT ![o] = r.v], CallF(op, o, r.ok, arg, val, r.ret, f),
          [appended EXCEPT ![o] = ap])

VReserve(o, n, f) ==
  /\ Live(o)
  /\ VMember(o, Reserve(Enter(hp), vec[o], n, f), "Reserve", n, None, f, Untracked)

VResize(o, n, f) ==
  /\ Live(o)
  /\ VMember(o, Resize(Enter(hp), vec[o], n, f), "Resize", n, None, f, Untracked)

VPushBack(o, x, f) ==
  /\ Live(o)
  /\ LET r == EmplaceBack(Enter(hp), vec[o], x, f)
     IN VMember(o, r, "PushBack", None, x, f,
                IF ~r.ok THEN appended[o]
                ELSE IF appended[o].pure THEN Tracked(Append(appended[o].seq, x))
                ELSE Untracked)

VPopBack(o) ==
  /\ Live(o) /\ vec[o].size_ > 0
  /\ VMember(o, PopBack(Enter(hp), vec[o]), "PopBack", None, None, Never, Untracked)

VInsert(o, pos, x, f) ==
  /\ Live(o) /\ pos <= vec[o].size_
  /\ VMember(o, Emplace(Enter(hp), vec[o], pos, x, f), "Insert", pos, x, f, Untracked)

\* v.PushBack(v[i]); arg is the index the value goes to, val the value v[i] held
VPushBackElem(o, i, f) ==
  /\ Live(o) /\ i < vec[o].size_
  /\ VMember(o, PushBackElem(Enter(hp), vec[o], i, f), "PushBack(elem)", vec[o].size_,
             hp.blk[Buf(vec[o])][i + 1], f, Untracked)

\* v.Insert(v.begin() + pos, v[i]); val is the value v[i] held
VInsertElem(o, pos, i, f) ==
  /\ Live(o) /\ pos <= vec[o].size_ /\ i < vec[o].size_
  /\ VMember(o, InsertElem(Enter(hp), vec[o], pos, i, f), "Insert(elem)", pos,
             hp.blk[Buf(vec[o])][i + 1], f, Untracked)

VErase(o, pos, f) ==
  /\ Live(o) /\ vec[o].size_ > 0 /\ pos <= vec[o].size_
  /\ VMember(o, Erase(Enter(hp), vec[o], pos, f), "Erase", pos, None, f, Untracked)

VSwap(o) ==
  /\ Live(o) /\ Live(Other(o))
  /\ LET s == VectorSwap(vec[o], vec[Other(o)])
     IN VCommit(Enter(hp), [vec EXCEPT ![o] = s[1], ![Other(o)] = s[2]],
                Call("Swap", o, TRUE, None, None, None), [p \in Obj |-> Untracked])

VCopyAssign(o, f) ==
  /\ Live(o) /\ Live(Other(o)) /\ T.cc
  /\ LET r == CopyAssign(Enter(hp), vec[o], vec[Other(o)], f)
     IN VCommit(r.h, [vec EXCEPT ![o] = r.this, ![Other(o)] = r.rhs],
                CallF("operator=(const&)", o, r.ok, None, None, None, f),
                [appended EXCEPT ![o] = Untracked])

VMoveAssign(o) ==
  /\ Live(o) /\ Live(Other(o))
  /\ LET r == MoveAssign(Enter(hp), vec[o], vec[Other(o)])
     IN VCommit(r.h, [vec EXCEPT ![o] = r.this, ![Other(o)] = r.rhs],
                Call("operator=(&&)", o, TRUE, None, None, None), [p \in Obj |-> Untracked])

\* v = v and v = std::move(v): this == &rhs, nothing is done
VSelfAssign(o) ==
  /\ Live(o)
  /\ VCommit(Enter(hp), vec, Call("operator=(self)", o, TRUE, None, None, None),
             [appended EXCEPT ![o] = Untracked])

\* the calls on the one object o, which grow it to at most m elements and in which
\* element operations throw at the points Fail gives
VOne(o, m, Fail(_)) ==
  \/ VCtorDefault(o)
  \/ \E n \in 0 .. m : \E f \in Fail(n) : VCtorSized(o, n, f)
  \/ VDtor(o)
  \/ \E n \in 0 .. (m + 1) : \E f \in Fail(vec[o].size_) : VReserve(o, n, f)
  \/ \E n \in 0 .. m : \E f \in Fail(Max(n, vec[o].size_)) : VResize(o, n, f)
  \/ vec[o].size_ < m /\ \E x \in Val : \E f \in Fail(vec[o].size_ + 1) : VPushBack(o, x, f)
  \/ VPopBack(o)
  \/ vec[o].size_ < m /\ \E pos \in 0 .. vec[o].size_ : \E x \in Val :
        \E f \in Fail(vec[o].size_ + 2) : VInsert(o, pos, x, f)
  \/ \E pos \in 0 .. vec[o].size_ : \E f \in Fail(vec[o].size_) : VErase(o, pos, f)
  \/ VSelfAssign(o)

\* the calls on the one object o that pass one of its own elements by reference
VOwn(o, m) ==
  \/ vec[o].size_ < m /\ \E i \in 0 .. (vec[o].size_ - 1) :
        \E f \in FailAt(vec[o].size_ + 1) : VPushBackElem(o, i, f)
  \/ vec[o].size_ < m /\ \E pos \in 0 .. vec[o].size_ : \E i \in 0 .. (vec[o].size_ - 1) :
        \E f \in FailAt(vec[o].size_ + 2) : VInsertElem(o, pos, i, f)

\* the calls on o that involve the other object
VTwo(o) ==
  \/ \E f \in FailAt(vec[Other(o)].size_) : VCtorCopy(o, f)
  \/ VCtorMove(o)
  \/ VSwap(o)
  \/ \E f \in FailAt(vec[Other(o)].size_) : VCopyAssign(o, f)
  \/ VMoveAssign(o)

\* the end of a call on SimpleVector objects
SCommit(h, nv, l, ap) ==
  LET s == Settle(h, [o \in Obj |-> nv[o].items_])
  IN /\ hp' = s.heap
     /\ sv' = [o \in Obj |-> [nv[o] EXCEPT !.items_ = s.addr[o]]]
     /\ last' = l
     /\ appended' = ap
     /\ emptied' = [q \in Obj |-> EmptiedBy(l, q, sv[q].size_, sv[q].capacity_, nv[q] # sv[q])]
     /\ UNCHANGED <<impl, T, vec>>

SLive(o) == impl = "SimpleVector" /\ sv[o].alive
SDead(o) == impl = "SimpleVector" /\ ~sv[o].alive

\* the end of a call of a member function of o that touches no other object
SMember(o, r, op, arg, val, ap) ==
  SCommit(r.h, [sv EXCEPT ![o] = r.v], Call(op, o, r.ok, arg, val, r.ret),
          [appended EXCEPT ![o] = ap])

SCtorDefault(o) ==
  /\ SDead(o)
  /\ SCommit(Enter(hp), [sv EXCEPT ![o] = SimpleVectorEmpty],
             Call("SimpleVector()", o, TRUE, None, None, None),
             [appended EXCEPT ![o] = Tracked(<<>>)])

SCtorSized(o, n) ==
  /\ SDead(o)
  /\ SMember(o, SimpleVectorSized(Enter(hp), n), "SimpleVector(n)", n, None, Untracked)

SCtorReserved(o, n) ==
  /\ SDead(o)
  /\ SMember(o, SimpleVectorReserved(Enter(hp), n), "SimpleVector(Reserve(n))", n, None, Untracked)

SCtorCopy(o) ==
  /\ SDead(o) /\ SLive(Other(o))
  /\ SMember(o, SimpleVectorCopy(Enter(hp), sv[Other(o)]), "SimpleVector(const&)", None, None,
             Untracked)

SCtorMove(o) ==
  /\ SDead(o) /\ SLive(Other(o))
  /\ LET s == SimpleVectorSwap(SimpleVectorEmpty, sv[Other(o)])
     IN SCommit(Enter(hp), [sv EXCEPT ![o] = s[1], ![Other(o)] = s[2]],
                Call("SimpleVector(&&)", o, TRUE, None, None, None), [p \in Obj |-> Untracked])

\* the implicit destructor: ~ArrayPtr
SDtor(o) ==
  /\ SLive(o)
  /\ SCommit(ArrayPtrDelete(Enter(hp), sv[o].items_), [sv EXCEPT ![o] = SimpleGone],
             Call("~SimpleVector", o, TRUE, None, None, None), [appended EXCEPT ![o] = Untracked])

\* At(index); val is the element the returned reference reads
SAt(o, index) ==
  /\ SLive(o)
  /\ LET r == At(Enter(hp), sv[o], index)
     IN SMember(o, r, "At", index, IF r.ok THEN hp.blk[sv[o].items_][r.ret + 1] ELSE None,
                appended[o])

SClear(o) ==
  /\ SLive(o)
  /\ SMember(o, Clear(Enter(hp), sv[o]), "Clear", None, None, Untracked)

SResize(o, n) ==
  /\ SLive(o)
  /\ SMember(o, SimpleVectorResize(Enter(hp), sv[o], n), "Resize", n, None, Untracked)

SReserve(o, n) ==
  /\ SLive(o)
  /\ SMember(o, SimpleVectorReserve(Enter(hp), sv[o], n), "Reserve", n, None, Untracked)

SPushBack(o, x) ==
  /\ SLive(o)
  /\ SMember(o, SimpleVectorPushBack(Enter(hp), sv[o], x), "PushBack", None, x,
             IF appended[o].pure THEN Tracked(Append(appended[o].seq, x)) ELSE Untracked)

SPopBack(o) ==
  /\ SLive(o)
  /\ SMember(o, SimpleVectorPopBack(Enter(hp), sv[o]), "PopBack", None, None, Untracked)

SInsert(o, pos, x) ==
  /\ SLive(o) /\ pos <= sv[o].size_
  /\ SMember(o, SimpleVectorInsert(Enter(hp), sv[o], pos, x), "Insert", pos, x, Untracked)

\* v.PushBack(v[i]); arg is the index the value goes to, val the value v[i] held
SPushBackElem(o, i) ==
  /\ SLive(o) /\ i < sv[o].size_
  /\ SMember(o, SimpleVectorPushBackElem(Enter(hp), sv[o], i), "PushBack(elem)", sv[o].size_,
             hp.blk[sv[o].items_][i + 1], Untracked)

\* v.Insert(v.begin() + pos, v[i]); val is the value v[i] held
SInsertElem(o, pos, i) ==
  /\ SLive(o) /\ pos <= sv[o].size_ /\ i < sv[o].size_
  /\ SMember(o, SimpleVectorInsertElem(Enter(hp), sv[o], pos, i), "Insert(elem)", pos,
             hp.blk[sv[o].items_][i + 1], Untracked)

SErase(o, pos) ==
  /\ SLive(o) /\ pos < sv[o].size_
  /\ SMember(o, SimpleVectorErase(Enter(hp), sv[o], pos), "Erase", pos, None, Untracked)

SSwap(o) ==
  /\ SLive(o) /\ SLive(Other(o))
  /\ LET s == SimpleVectorSwap(sv[o], sv[Other(o)])
     IN SCommit(Enter(hp), [sv EXCEPT ![o] = s[1], ![Other(o)] = s[2]],
                Call("Swap", o, TRUE, None, None, None), [p \in Obj |-> Untracked])

SCopyAssign(o) ==
  /\ SLive(o) /\ SLive(Other(o))
  /\ LET r == SimpleVectorCopyAssign(Enter(hp), sv[o], sv[Other(o)])
     IN SCommit(r.h, [sv EXCEPT ![o] = r.this, ![Other(o)] = r.rhs],
                Call("operator=(const&)", o, TRUE, None, None, None),
                [appended EXCEPT ![o] = Untracked])

SMoveAssign(o) ==
  /\ SLive(o) /\ SLive(Other(o))
  /\ LET r == SimpleVectorMoveAssign(Enter(hp), sv[o], sv[Other(o)])
     IN SCommit(r.h, [sv EXCEPT ![o] = r.this, ![Other(o)] = r.rhs],
                Call("operator=(&&)", o, TRUE, None, None, None), [p \in Obj |-> Untracked])

\* v = v and v = std::move(v): this == &rhs, nothing is done
SSelfAssign(o) ==
  /\ SLive(o)
  /\ SCommit(Enter(hp), sv, Call("operator=(self)", o, TRUE, None, None, None),
             [appended EXCEPT ![o] = Untracked])

\* o op other, op one of the six comparison operators; ret is 1 for true, 0 for false
SCompare(o, op) ==
  /\ SLive(o) /\ SLive(Other(o))
  /\ SCommit(Enter(hp), sv,
             Call(op, o, TRUE, None, None,
                  IF Compare(op, hp, sv[o], sv[Other(o)]) THEN 1 ELSE 0),
             appended)

\* the calls on the one SimpleVector o that pass one of its own elements by reference
SOwn(o, m) ==
  \/ sv[o].size_ < m /\ \E i \in 0 .. (sv[o].size_ - 1) : SPushBackElem(o, i)
  \/ sv[o].size_ < m /\ \E pos \in 0 .. sv[o].size_ : \E i \in 0 .. (sv[o].size_ - 1) :
        SInsertElem(o, pos, i)

\* the calls on the one SimpleVector o, which grow it to at most m elements
SOne(o, m) ==
  \/ SCtorDefault(o)
  \/ \E n \in 0 .. m : SCtorSized(o, n)
  \/ \E n \in 0 .. (m + 1) : SCtorReserved(o, n)
  \/ SDtor(o)
  \/ SClear(o)
  \/ \E n \in 0 .. m : SResize(o, n)
  \/ \E n \in 0 .. (m + 1) : SReserve(o, n)
  \/ sv[o].size_ < m /\ \E x \in Val : SPushBack(o, x)
  \/ SPopBack(o)
  \/ sv[o].size_ < m /\ \E pos \in 0 .. sv[o].size_ : \E x \in Val : SInsert(o, pos, x)
  \/ \E pos \in 0 .. sv[o].size_ : SErase(o, pos)
  \/ \E index \in 0 .. (m + 1) : SAt(o, index)
  \/ SSelfAssign(o)

\* the calls on the SimpleVector o that involve the other object
STwo(o) ==
  \/ SCtorCopy(o)
  \/ SCtorMove(o)
  \/ SSwap(o)
  \/ SCopyAssign(o)
  \/ SMoveAssign(o)

\* a program that uses one array
Next ==
  \/ VOne("a", MaxSize, FailAt) \/ VOwn("a", MaxSize)
  \/ SOne("a", MaxSize) \/ SOwn("a", MaxSize)

Spec == Init /\ [][Next]_vars

\* a program that uses two arrays
PairNext == \E o \in Obj : VOne(o, PairMaxSize, NoFail) \/ VTwo(o) \/ SOne(o, PairMaxSize) \/ STwo(o)

PairSpec == Init /\ [][PairNext]_vars

\* a program that fills two SimpleVectors by appends and PopBack and compares them
CmpInit == Init /\ impl = "SimpleVector"

CmpNext ==
  \E o \in Obj :
    \/ SCtorDefault(o)
    \/ sv[o].size_ < CmpMaxSize /\ \E x \in Val : SPushBack(o, x)
    \/ SPopBack(o)
    \/ \E op \in CompareOps : SCompare(o, op)

CmpSpec == CmpInit /\ [][CmpNext]_vars

\* ------------------------------------------------------------- what is seen
\* whether o is within its lifetime, GetSize()/Size(), GetCapacity()/Capacity(), the
\* address of its block, and the elements operator[] reads over [0, size)
Alive(o) == IF impl = "Vector" THEN vec[o].alive ELSE sv[o].alive
Size(o) == IF impl = "Vector" THEN vec[o].size_ ELSE sv[o].size_
Cap(o) == IF impl = "Vector" THEN Capacity(vec[o]) ELSE sv[o].capacity_
Block(o) == IF impl = "Vector" THEN Buf(vec[o]) ELSE sv[o].items_
Content(o) == [i \in 1 .. Size(o) |-> hp.blk[Block(o)][i]]

\* xs with x put in before the element at index p (from 0); xs without that element
InsertedAt(xs, p, x) == SubSeq(xs, 1, p) \o <<x>> \o SubSeq(xs, p + 1, Len(xs))
RemovedAt(xs, p) == SubSeq(xs, 1, p) \o SubSeq(xs, p + 2, Len(xs))

\* ------------------------------------------------------------------ claims

\* C1: in every reachable state of a Vector, size <= capacity, the owned block has
\* capacity slots, exactly the slots [0, size) hold live elements and the slots
\* [size, capacity) hold none.
C1_LivePrefix ==
  \A o \in Obj :
    Live(o) =>
      /\ vec[o].size_ <= Capacity(vec[o])
      /\ (Buf(vec[o]) = NULL) = (Capacity(vec[o]) = 0)
      /\ Buf(vec[o]) # NULL =>
           /\ Len(hp.blk[Buf(vec[o])]) = Capacity(vec[o])
           /\ \A i \in 1 .. Capacity(vec[o]) :
                (hp.blk[Buf(vec[o])][i] # Raw) = (i <= vec[o].size_)

\* C2: after N appends to an array created empty, the size is N and element i is the
\* i-th appended value, whatever reallocations happened in between.
C2_AppendsReadBack ==
  \A o \in Obj :
    (Alive(o) /\ appended[o].pure) =>
      /\ Size(o) = Len(appended[o].seq)
      /\ Content(o) = appended[o].seq

C2_Witness ==
  /\ Alive("a") /\ appended["a"].pure
  /\ Len(appended["a"].seq) = MaxSize
  /\ appended["a"].seq[1] # appended["a"].seq[2]
  /\ Cap("a") > MaxSize

\* C3: an append made with size = capacity = C leaves capacity max(1, 2C); an append
\* made with size < capacity leaves capacity unchanged.
C3_AppendCapacity ==
  [][ \A o \in Obj :
        (last'.op = "PushBack" /\ last'.obj = o /\ last'.ok) =>
          Cap(o)' = (IF Size(o) = Cap(o) THEN Max(1, 2 * Cap(o)) ELSE Cap(o)) ]_vars

C3_Witness ==
  /\ last.op = "PushBack" /\ last.ok
  /\ Size(last.obj) = 3 /\ Cap(last.obj) = 4

\* C4: an insert at p, 0 <= p <= size, adds one element: the elements before p stay,
\* the value is at p, the elements from p on follow it in order, and the position
\* returned is index p.
C4_InsertAt ==
  [][ \A o \in Obj :
        (last'.op = "Insert" /\ last'.obj = o /\ last'.ok) =>
          /\ Size(o)' = Size(o) + 1
          /\ Content(o)' = InsertedAt(Content(o), last'.arg, last'.val)
          /\ last'.ret = last'.arg ]_vars

C4_Witness ==
  /\ last.op = "Insert" /\ last.ok /\ last.arg = 1
  /\ Size(last.obj) = 3 /\ Cap(last.obj) = 4
  /\ Content(last.obj)[1] # Content(last.obj)[2]

\* C5: an erase at p, 0 <= p < size, removes one element: the elements before p stay,
\* the elements after p move one slot down in order, capacity stays, and the position
\* returned is index p, which is end exactly when the last element was removed.
C5_RemoveAt ==
  [][ \A o \in Obj :
        (last'.op = "Erase" /\ last'.obj = o /\ last'.ok /\ last'.arg < Size(o)) =>
          /\ Size(o)' = Size(o) - 1
          /\ Content(o)' = RemovedAt(Content(o), last'.arg)
          /\ Cap(o)' = Cap(o)
          /\ last'.ret = last'.arg
          /\ (last'.ret = Size(o)') = (last'.arg = Size(o) - 1) ]_vars

C5_Witness ==
  /\ last.op = "Erase" /\ last.ok /\ last.arg = 0
  /\ Size(last.obj) = 2
  /\ Content(last.obj)[1] # Content(last.obj)[2]

\* C6: after any sequence of operations on Vector objects no block and no live
\* element is left without an owner, no block is released twice or with live
\* elements in it, no element is destroyed twice, and when every object has been
\* destroyed no block remains allocated.
C6_NoLeakNoDoubleRelease ==
  impl = "Vector" =>
    /\ hp.bad \cap {"leaked_block", "leaked_element", "double_release",
                    "released_live", "destroyed_raw"} = {}
    /\ (\A o \in Obj : ~vec[o].alive) => \A b \in BlockId : hp.blk[b] = <<>>

\* C7: when the construction of the new element fails in an append or insert that
\* grows the array, no element of the old block has been moved, copied or destroyed,
\* the new block is released, and size, capacity and elements are those before the
\* call.
C7_NewElementFirst ==
  [][ \A o \in Obj :
        ( /\ impl = "Vector"
          /\ last'.op \in {"PushBack", "Insert"} /\ last'.obj = o
          /\ ~last'.ok /\ last'.fail = 0
          /\ vec[o].size_ = Capacity(vec[o]) ) =>
          /\ vec'[o] = vec[o]
          /\ hp'.blk = hp.blk
          /\ hp'.bad = {} ]_vars

C7_Witness ==
  /\ impl = "Vector" /\ T.mv
  /\ last.op = "Insert" /\ ~last.ok /\ last.fail = 0 /\ last.arg = 1
  /\ vec[last.obj].size_ = 2 /\ Capacity(vec[last.obj]) = 2
  /\ Content(last.obj)[1] # Content(last.obj)[2]

\* C8: when an element construction fails part-way through Vector(n), copy
\* construction, Reserve, or the growth path of an append or insert, every element
\* the operation constructed in the new block is destroyed before the failure
\* propagates: the block that is then released holds no live element.
C8_FailureDestroysConstructed ==
  ( /\ impl = "Vector"
    /\ last.op \in {"Vector(n)", "Vector(const&)", "Reserve", "PushBack", "Insert"}
    /\ ~last.ok ) =>
    hp.bad \cap {"released_live", "leaked_element"} = {}

\* C9: when an element construction or assignment fails during Reserve, Resize, an
\* append or an insert before the old storage has been discarded, size, capacity and
\* elements after the failure are those before the call. (Reserve, append and insert
\* discard the old storage as their last step; a failed Resize has discarded it
\* exactly when the capacity changed.)
C9_FailureLeavesState ==
  [][ \A o \in Obj :
        ( /\ impl = "Vector"
          /\ last'.op \in {"Reserve", "Resize", "PushBack", "Insert"} /\ last'.obj = o
          /\ ~last'.ok
          /\ (last'.op = "Resize" => Cap(o)' = Cap(o)) ) =>
          /\ Size(o)' = Size(o)
          /\ Cap(o)' = Cap(o)
          /\ Content(o)' = Content(o) ]_vars

\* C10: copy construction gives the new array the size and the elements of the
\* source, leaves the source unchanged and gives the new array storage of its own;
\* an operation on one array alone leaves the size, capacity and elements of the
\* other unchanged.
C10_CopyIndependent ==
  [][ \A o \in Obj :
        /\ (last'.op \in {"Vector(const&)", "SimpleVector(const&)"} /\ last'.obj = o /\ last'.ok) =>
             /\ Size(o)' = Size(Other(o))
             /\ Content(o)' = Content(Other(o))
             /\ Size(Other(o))' = Size(Other(o))
             /\ Cap(Other(o))' = Cap(Other(o))
             /\ Content(Other(o))' = Content(Other(o))
             /\ Block(o)' # NULL => Block(o)' # Block(Other(o))'
        /\ ( /\ last'.op \in {"Reserve", "Resize", "PushBack", "PopBack", "Insert", "Erase",
                              "Clear", "operator=(self)"}
             /\ last'.obj = o /\ Alive(Other(o)) ) =>
             /\ Alive(Other(o))'
             /\ Size(Other(o))' = Size(Other(o))
             /\ Cap(Other(o))' = Cap(Other(o))
             /\ Content(Other(o))' = Content(Other(o)) ]_vars

C10_Witness ==
  /\ last.op \in {"Vector(const&)", "SimpleVector(const&)"} /\ last.ok
  /\ Size(last.obj) = 1 /\ Size(Other(last.obj)) = 1
  /\ Content(last.obj) = Content(Other(last.obj))
  /\ Content(last.obj)[1] # Default
  /\ Block(last.obj) # Block(Other(last.obj))

\* C11: move construction and move assignment of an array from a distinct array
\* leave the source with size 0 and capacity 0 and without a block, and leave the
\* target with the source's size, capacity and elements in order; the block is handed
\* over as it is, no element of it is constructed, copied or relocated.
C11_MoveTransfers ==
  [][ \A o \in Obj :
        (last'.op \in {"Vector(&&)", "SimpleVector(&&)", "operator=(&&)"} /\ last'.obj = o) =>
          /\ last'.ok
          /\ Size(Other(o))' = 0 /\ Cap(Other(o))' = 0 /\ Block(Other(o))' = NULL
          /\ Size(o)' = Size(Other(o))
          /\ Cap(o)' = Cap(Other(o))
          /\ Content(o)' = Content(Other(o))
          /\ (Block(Other(o)) = NULL) = (Block(o)' = NULL)
          /\ Block(Other(o)) # NULL => hp'.blk[Block(o)'] = hp.blk[Block(Other(o))] ]_vars

C11_Witness ==
  /\ last.op = "operator=(&&)" /\ last.ok
  /\ Alive(Other(last.obj))
  /\ Size(last.obj) = 1 /\ Content(last.obj)[1] # Default
  /\ Size(Other(last.obj)) = 0 /\ Cap(Other(last.obj)) = 0

\* C12: At(index) fails exactly when index >= size, also for an index in
\* [size, capacity) that an earlier PopBack, Clear or Resize left behind; otherwise it
\* returns the element at index; in both cases size, capacity and all elements stay.
C12_CheckedAccess ==
  [][ \A o \in Obj :
        (last'.op = "At" /\ last'.obj = o) =>
          /\ last'.ok = (last'.arg < Size(o))
          /\ last'.ok => last'.val = Content(o)[last'.arg + 1]
          /\ sv' = sv
          /\ hp'.blk = hp.blk ]_vars

C12_Witness ==
  /\ last.op = "At" /\ ~last.ok
  /\ last.arg >= Size(last.obj) /\ last.arg < Cap(last.obj)
  /\ hp.blk[Block(last.obj)][last.arg + 1] # Default

\* C13: Resize(0) on a non-empty array sets the size to 0 and leaves the capacity as
\* it was, and the appends that follow do not reallocate: the capacity stays the one
\* the array had before Resize(0) for as long as the size does not exceed it.
C13_ResizeZeroKeepsCapacity ==
  \A o \in Obj :
    (Alive(o) /\ emptied[o] # None) =>
      /\ (last.op = "Resize" /\ last.obj = o) => Size(o) = 0
      /\ Size(o) <= emptied[o] => Cap(o) = emptied[o]

C13_Witness ==
  /\ last.op = "PushBack" /\ last.ok /\ last.obj = "a"
  /\ emptied["a"] = 2 /\ Size("a") = 2 /\ Cap("a") = 2

\* C14: operator== is true exactly when the two arrays have the same size and equal
\* elements over [0, size), whatever their capacities and the stale values in
\* [size, capacity); operator!= is its negation.
C14_Equality ==
  \A o \in Obj :
    (SLive(o) /\ SLive(Other(o))) =>
      LET same == Size(o) = Size(Other(o)) /\ Content(o) = Content(Other(o))
      IN /\ OperatorEq(hp, sv[o], sv[Other(o)]) = same
         /\ OperatorNe(hp, sv[o], sv[Other(o)]) = ~same
         /\ (last.op = "operator==" /\ last.obj = o) => (last.ret = 1) = same
         /\ (last.op = "operator!=" /\ last.obj = o) => (last.ret = 1) = ~same

C14_Witness ==
  /\ last.op = "operator==" /\ last.ret = 1
  /\ Size("a") = 1 /\ Size("b") = 1
  /\ Cap(last.obj) = 2 /\ Cap(Other(last.obj)) = 1
  /\ hp.blk[Block(last.obj)][2] # Content(last.obj)[1]

\* xs is lexicographically smaller than ys: they agree on the first k elements and
\* then xs has ended and ys has not, or the next element of xs is the smaller one
LexLess(xs, ys) ==
  \E k \in 0 .. Min(Len(xs), Len(ys)) :
    /\ SubSeq(xs, 1, k) = SubSeq(ys, 1, k)
    /\ \/ k = Len(xs) /\ k < Len(ys)
       \/ k < Len(xs) /\ k < Len(ys) /\ xs[k + 1] < ys[k + 1]

\* C15: operator< is the lexicographic order of the element sequences over [0, size)
\* (a proper prefix is smaller); exactly one of a < b, a == b, a > b holds; a <= b is
\* (a < b or a == b); a >= b is not (a < b).
C15_LexicographicOrder ==
  \A o \in Obj :
    (SLive(o) /\ SLive(Other(o))) =>
      LET a == sv[o]
          b == sv[Other(o)]
          lt == OperatorLt(hp, a, b)
          eq == OperatorEq(hp, a, b)
          gt == OperatorGt(hp, a, b)
          said == last.ret = 1
      IN /\ lt = LexLess(Content(o), Content(Other(o)))
         /\ gt = LexLess(Content(Other(o)), Content(o))
         /\ Cardinality({i \in 1 .. 3 : <<lt, eq, gt>>[i]}) = 1
         /\ OperatorLe(hp, a, b) = (lt \/ eq)
         /\ OperatorGe(hp, a, b) = ~lt
         /\ (last.op = "operator<" /\ last.obj = o) => said = lt
         /\ (last.op = "operator>" /\ last.obj = o) => said = gt
         /\ (last.op = "operator<=" /\ last.obj = o) => said = (lt \/ eq)
         /\ (last.op = "operator>=" /\ last.obj = o) => said = ~lt

C15_Witness ==
  /\ last.op = "operator<" /\ last.ret = 1
  /\ Size("a") = 2 /\ Size("b") = 2
  /\ Content("a")[1] = Content("b")[1]

\* C16: the array made by copy construction has the capacity of the source's size,
\* also when the source's capacity exceeds its size.
C16_CopyCapacity ==
  \A o \in Obj :
    (last.op \in {"Vector(const&)", "SimpleVector(const&)"} /\ last.obj = o /\ last.ok) =>
      Cap(o) = Size(Other(o))

\* the lifetime errors a call on the Vector o may be charged with for an object that
\* was alive outside [0, size) of o's block before the call: such an object is no
\* element of o, and releasing the block ends it undestroyed
Stray(o) ==
  IF impl = "Vector" /\ Block(o) # NULL
       /\ \E i \in (Size(o) + 1) .. Cap(o) : hp.blk[Block(o)][i] # Raw
    THEN {"released_live"}
    ELSE {}

\* C17: Reserve(n) with n <= capacity changes nothing; Reserve(n) with n > capacity
\* leaves capacity n and the size and the elements as they were, every element of the
\* old block destroyed once and the old block released once; when the transfer fails
\* the old block has not been touched, so it is released only after all its elements
\* were transferred.
C17_Reserve ==
  [][ \A o \in Obj :
        (last'.op = "Reserve" /\ last'.obj = o) =>
          /\ last'.arg <= Cap(o) =>
               /\ last'.ok
               /\ vec' = vec /\ sv' = sv /\ hp'.blk = hp.blk
          /\ (last'.arg > Cap(o) /\ last'.ok) =>
               /\ Cap(o)' = last'.arg
               /\ Size(o)' = Size(o)
               /\ Content(o)' = Content(o)
               /\ Len(hp'.blk[Block(o)']) = last'.arg
               /\ hp'.bad \subseteq Stray(o)
          /\ (last'.arg > Cap(o) /\ ~last'.ok) =>
               /\ vec' = vec /\ hp'.blk = hp.blk /\ hp'.bad = {} ]_vars

C17_Witness ==
  /\ last.op = "Reserve" /\ last.ok /\ last.arg = 3
  /\ Size(last.obj) = 2 /\ Cap(last.obj) = 3
  /\ Content(last.obj)[1] # Content(last.obj)[2]

\* C18: Resize(n) with n > size keeps the elements [0, old size), makes every element
\* of [old size, n) the default value of the type, sets the size to n, and leaves the
\* capacity exactly n when n exceeded the old capacity and unchanged otherwise.
C18_ResizeGrows ==
  [][ \A o \in Obj :
        (last'.op = "Resize" /\ last'.obj = o /\ last'.ok /\ last'.arg > Size(o)) =>
          /\ Size(o)' = last'.arg
          /\ SubSeq(Content(o)', 1, Size(o)) = Content(o)
          /\ \A i \in (Size(o) + 1) .. last'.arg : Content(o)'[i] = Default
          /\ Cap(o)' = (IF last'.arg > Cap(o) THEN last'.arg ELSE Cap(o)) ]_vars

\* C19: an insert at end is an append: from every state, full or not, empty or not,
\* and with every failure point, both leave the same size, capacity and elements (or
\* fail alike), and the insert returns the position of the last element.
C19_InsertAtEndIsAppend ==
  \A o \in Obj :
    /\ Live(o) =>
         \A x \in Val : \A f \in FailAt(vec[o].size_ + 1) :
           LET i == Emplace(Enter(hp), vec[o], vec[o].size_, x, f)
               p == EmplaceBack(Enter(hp), vec[o], x, f)
           IN /\ i.ok = p.ok
              /\ i.v.size_ = p.v.size_
              /\ Capacity(i.v) = Capacity(p.v)
              /\ Slots(i.h, Buf(i.v), 0, i.v.size_) = Slots(p.h, Buf(p.v), 0, p.v.size_)
              /\ i.ok => i.ret = i.v.size_ - 1
    /\ SLive(o) =>
         \A x \in Val :
           LET i == SimpleVectorInsert(Enter(hp), sv[o], sv[o].size_, x)
               p == SimpleVectorPushBack(Enter(hp), sv[o], x)
           IN /\ i.ok = p.ok
              /\ i.v.size_ = p.v.size_
              /\ i.v.capacity_ = p.v.capacity_
              /\ Slots(i.h, i.v.items_, 0, i.v.size_) = Slots(p.h, p.v.items_, 0, p.v.size_)
              /\ i.ret = i.v.size_ - 1
    /\ (last.op = "Insert" /\ last.obj = o /\ last.ok /\ last.arg = Size(o) - 1) =>
         /\ last.ret = Size(o) - 1
         /\ Content(o)[Size(o)] = last.val

C19_Witness ==
  /\ last.op = "Insert" /\ last.ok /\ last.arg = 2 /\ last.ret = 2
  /\ Size(last.obj) = 3 /\ Cap(last.obj) = 4
  /\ Content(last.obj)[3] # Content(last.obj)[2]

\* C20: an insert or append whose value is a reference to an element of the same
\* array puts in the value that element held when the call started, in the in-place
\* path and in the growth path, wherever the element lies.
C20_AliasedValue ==
  [][ \A o \in Obj :
        (last'.op \in {"Insert(elem)", "PushBack(elem)"} /\ last'.obj = o /\ last'.ok) =>
          /\ Size(o)' = Size(o) + 1
          /\ Content(o)' = InsertedAt(Content(o), last'.arg, last'.val) ]_vars

\* C21: Vector copy assignment a = b that returns normally leaves a with b's size and
\* b's elements in order and leaves b's size, capacity and elements as they were, for
\* every a.size, a.capacity and b.size. When b.size <= a.capacity a keeps its block and
\* its capacity, the elements [b.size, a.size) are destroyed, the elements
\* [a.size, b.size) are copy-constructed in slots that held none, and no slot beyond
\* them is touched; otherwise a's capacity becomes b.size and a's old elements and block
\* are destroyed and released. Self-assignment changes nothing.
C21_CopyAssign ==
  [][ \A o \in Obj :
        /\ (impl = "Vector" /\ last'.op = "operator=(const&)" /\ last'.obj = o /\ last'.ok) =>
             /\ Size(o)' = Size(Other(o))
             /\ Content(o)' = Content(Other(o))
             /\ Size(Other(o))' = Size(Other(o))
             /\ Cap(Other(o))' = Cap(Other(o))
             /\ Content(Other(o))' = Content(Other(o))
             /\ hp'.bad = {}
             /\ Size(Other(o)) <= Cap(o) =>
                  /\ Cap(o)' = Cap(o)
                  /\ Buf(CopyAssign(Enter(hp), vec[o], vec[Other(o)], Never).this) = Buf(vec[o])
                  /\ \A i \in 1 .. Cap(o) :
                       hp'.blk[Block(o)'][i] =
                         IF i <= Size(Other(o)) THEN hp.blk[Block(Other(o))][i]
                         ELSE IF i <= Size(o) THEN Raw
                         ELSE hp.blk[Block(o)][i]
             /\ Size(Other(o)) > Cap(o) =>
                  /\ Cap(o)' = Size(Other(o))
                  /\ Len(hp'.blk[Block(o)']) = Size(Other(o))
                  /\ Block(o)' # Block(Other(o))'
        /\ (impl = "Vector" /\ last'.op = "operator=(self)" /\ last'.obj = o) =>
             /\ last'.ok
             /\ vec' = vec /\ hp'.blk = hp.blk /\ hp'.bad = {} ]_vars

C21_Witness ==
  /\ impl = "Vector" /\ last.op = "operator=(const&)" /\ last.ok
  /\ Size(last.obj) = 1 /\ Cap(last.obj) = 2 /\ Cap(Other(last.obj)) = 1
  /\ Content(last.obj) = Content(Other(last.obj))
  /\ Content(last.obj)[1] # Default
  /\ hp.blk[Block(last.obj)][2] = Raw

====
